---- MODULE Spec2Model ----
(***************************************************************************)
(* Model of tool.py: the DOM reducer clean_tag and the part of the /scrape *)
(* handler that parses a page, reduces it and renders the result.          *)
(*                                                                         *)
(* Strings are sequences of one-character strings.  A parsed page is a     *)
(* tree of bs4 objects: NavigableString leaves and Tag elements.  The      *)
(* values clean_tag returns are None, a Python str, or a freshly built Tag *)
(* (an <a> or a <section>).  All of them are records of one shape.         *)
(***************************************************************************)
EXTENDS Integers, Sequences, FiniteSets, TLC

\* the /scrape handler's reduction of one page
VARIABLES pc, tagStack, body, cleaned, output_html, reparsed, recleaned

\* the page source and its parse in the /scrape handler
VARIABLES page_source, soup

\* the argument and the result of is_meaningful_text
VARIABLES input_text, meaningful

reducerVars == <<pc, tagStack, body, cleaned, output_html, reparsed, recleaned>>

assemblyVars == <<page_source, soup>>

\* the browser manager: its driver, the browser instances that respond, the
\* ones that were quit, the number launched so far, the holder of its lock,
\* and the instance each thread is inside a call to
VARIABLES driver, alive, quit, created, lock, calling

\* each request thread: its position, the return points of get_driver and
\* restart_driver, the value get_driver returned and the handler's driver
VARIABLES tpc, ret, rs_ret, returned, local

\* each request: its route and the search's max_pages, current_page and
\* all_results, the response, and the requests the clients send
VARIABLES route, max_pages, current_page, all_results, response, clients

classifierVars == <<input_text, meaningful>>

managerVars == <<driver, alive, quit, created, lock, calling>>

threadVars == <<tpc, ret, rs_ret, returned, local>>

requestVars == <<route, max_pages, current_page, all_results, response, clients>>

serverVars == <<managerVars, threadVars, requestVars>>

vars == <<reducerVars, assemblyVars, classifierVars, serverVars>>

(***************************************************************************)
(* Bounds of the input pages.                                              *)
(***************************************************************************)
\* number of nodes (elements and text nodes) of a page body
MaxNodes == 5

(***************************************************************************)
(* Python strings.                                                         *)
(***************************************************************************)
Whitespace == {" ", "\t", "\n"}

RECURSIVE lstrip(_)
lstrip(s) ==
    IF s # <<>> /\ Head(s) \in Whitespace THEN lstrip(Tail(s)) ELSE s

RECURSIVE rstrip(_)
rstrip(s) ==
    IF s # <<>> /\ s[Len(s)] \in Whitespace
    THEN rstrip(SubSeq(s, 1, Len(s) - 1))
    ELSE s

\* str.strip()
strip(s) == rstrip(lstrip(s))

\* str.startswith(prefix)
startswith(s, prefix) ==
    /\ Len(s) >= Len(prefix)
    /\ SubSeq(s, 1, Len(prefix)) = prefix

\* sep.join(parts), parts a sequence of strings
RECURSIVE join(_, _)
join(sep, parts) ==
    IF parts = <<>> THEN <<>>
    ELSE IF Len(parts) = 1 THEN parts[1]
    ELSE parts[1] \o sep \o join(sep, Tail(parts))

\* the concatenation of a sequence of sequences
RECURSIVE Flatten(_)
Flatten(seqs) ==
    IF seqs = <<>> THEN <<>> ELSE Head(seqs) \o Flatten(Tail(seqs))

\* no request thread is serving
ServerOff ==
    /\ driver = 0 /\ alive = {} /\ quit = {} /\ created = 0 /\ lock = 0
    /\ calling = <<>> /\ tpc = <<>> /\ ret = <<>> /\ rs_ret = <<>>
    /\ returned = <<>> /\ local = <<>> /\ route = <<>> /\ max_pages = <<>>
    /\ current_page = <<>> /\ all_results = <<>> /\ response = <<>>
    /\ clients = {}

(***************************************************************************)
(* bs4 objects and the values of clean_tag.                                *)
(***************************************************************************)
None == [kind |-> "None", name |-> "", attrs |-> {}, s |-> <<>>, contents |-> <<>>]

Str(s) == [kind |-> "str", name |-> "", attrs |-> {}, s |-> s, contents |-> <<>>]

NavigableString(s) ==
    [kind |-> "NavigableString", name |-> "", attrs |-> {}, s |-> s, contents |-> <<>>]

Tag(name, attrs, contents) ==
    [kind |-> "Tag", name |-> name, attrs |-> attrs, s |-> <<>>, contents |-> contents]

\* tag.get(key, default)
Get(tag, key, default) ==
    IF \E p \in tag.attrs : p[1] = key
    THEN (CHOOSE p \in tag.attrs : p[1] = key)[2]
    ELSE default

\* isinstance(item, str)
IsStr(x) == x.kind \in {"str", "NavigableString"}

\* bool(x): None and '' are falsy; Tag.__bool__ is always True
Truthy(x) ==
    \/ x.kind = "Tag"
    \/ IsStr(x) /\ x.s # <<>>

\* tag.get_text(strip=True): every descendant string stripped, the empty
\* ones skipped, the rest joined with the empty separator
RECURSIVE stripped_strings(_)
stripped_strings(tag) ==
    IF tag.kind = "NavigableString"
    THEN IF strip(tag.s) # <<>> THEN <<strip(tag.s)>> ELSE <<>>
    ELSE LET parts == [i \in 1..Len(tag.contents) |-> stripped_strings(tag.contents[i])]
         IN  Flatten(parts)

get_text_strip(tag) == join(<<>>, stripped_strings(tag))

(***************************************************************************)
(* clean_tag                                                               *)
(***************************************************************************)
mailto == <<"m", "a", "i", "l", "t", "o", ":">>
http == <<"h", "t", "t", "p">>

\* the <a> branch of clean_tag
clean_anchor(tag) ==
    LET href == Get(tag, "href", <<>>)
        text == get_text_strip(tag)
    IN  IF startswith(href, mailto) \/ startswith(href, http)
        THEN Tag("a", {<<"href", href>>}, <<NavigableString(text)>>)
        ELSE IF text # <<>> THEN Str(text) ELSE None

\* the text-node branch with only the leading whitespace removed
clean_string_lstrip(tag) ==
    LET text == lstrip(tag.s)
    IN  IF text # <<>> THEN Str(text) ELSE None

\* the NavigableString branch of clean_tag
clean_string(tag) ==
    LET text == strip(tag.s)
    IN  IF text # <<>> THEN Str(text) ELSE None

\* flush_buffer joining without the space
flush_buffer_nospace(result, buffer) ==
    IF buffer # <<>> THEN Append(result, Str(join(<<>>, buffer))) ELSE result

\* flush_buffer(): result.append(' '.join(buffer)) when the buffer is not empty
flush_buffer(result, buffer) ==
    IF buffer # <<>> THEN Append(result, Str(join(<<" ">>, buffer))) ELSE result

\* the loop over cleaned_children: strings go to the buffer, a tag flushes
\* the buffer and is appended; the buffer is flushed at the end
RECURSIVE merge_loop(_, _, _, _)
merge_loop(cleaned_children, i, result, buffer) ==
    IF i > Len(cleaned_children) THEN flush_buffer(result, buffer)
    ELSE LET item == cleaned_children[i]
         IN  IF IsStr(item)
             THEN merge_loop(cleaned_children, i + 1, result, Append(buffer, item.s))
             ELSE merge_loop(cleaned_children, i + 1,
                             Append(flush_buffer(result, buffer), item), <<>>)

\* the merge with a child <section> spliced into the list (what the code
\* does not do)
RECURSIVE splice_sections(_)
splice_sections(cleaned_children) ==
    IF cleaned_children = <<>> THEN <<>>
    ELSE LET item == Head(cleaned_children)
             rest == splice_sections(Tail(cleaned_children))
         IN  IF item.kind = "Tag" /\ item.name = "section"
             THEN SelectSeq(item.contents, LAMBDA c : c # NavigableString(<<" ">>))
                      \o rest
             ELSE <<item>> \o rest

merge_spliced(cleaned_children) ==
    merge_loop([i \in 1..Len(splice_sections(cleaned_children)) |->
                  LET c == splice_sections(cleaned_children)[i]
                  IN  IF c.kind = "NavigableString" THEN Str(c.s) ELSE c],
               1, <<>>, <<>>)

\* the merge without the buffer: every child result is an item of its own
merge_unbuffered(cleaned_children) == cleaned_children

\* the list `result` built from cleaned_children
merge(cleaned_children) == merge_loop(cleaned_children, 1, <<>>, <<>>)

\* the contents of the new <section>: a ' ' goes before a string when the
\* section already has contents
RECURSIVE section_contents(_, _, _)
section_contents(result, i, contents) ==
    IF i > Len(result) THEN contents
    ELSE LET item == result[i]
         IN  IF IsStr(item)
             THEN section_contents(result, i + 1,
                     (IF contents # <<>>
                      THEN Append(contents, NavigableString(<<" ">>))
                      ELSE contents) \o <<NavigableString(item.s)>>)
             ELSE section_contents(result, i + 1, Append(contents, item))

\* the new <section> with a ' ' between every two items
new_section_spaced(result) ==
    Tag("section", {},
        Flatten([i \in 1..Len(result) |->
                   (IF i > 1 THEN <<NavigableString(<<" ">>)>> ELSE <<>>)
                     \o <<IF IsStr(result[i]) THEN NavigableString(result[i].s)
                          ELSE result[i]>>]))

\* section = Tag(name='section') with the items appended
new_section(result) == Tag("section", {}, section_contents(result, 1, <<>>))

\* every non-empty list wrapped, a lone string too
wrap_always(result) ==
    IF result = <<>> THEN None ELSE new_section(result)

\* what clean_tag returns for the list `result`
wrap(result) ==
    IF result = <<>> THEN None
    ELSE IF Len(result) = 1 /\ IsStr(result[1]) THEN result[1]
    ELSE new_section(result)

\* `if cleaned_child:` as len(): a tag without visible text is dropped
keep_nonempty(cleaned_child) ==
    /\ cleaned_child # None
    /\ (cleaned_child.kind = "Tag" => get_text_strip(cleaned_child) # <<>>)

\* `if cleaned_child:`
keep(cleaned_child) == Truthy(cleaned_child)

RECURSIVE clean_tag(_)
clean_tag(tag) ==
    IF tag.kind = "NavigableString" THEN clean_string(tag)
    ELSE IF tag.name = "a" THEN clean_anchor(tag)
    ELSE LET children == [i \in 1..Len(tag.contents) |-> clean_tag(tag.contents[i])]
             cleaned_children == SelectSeq(children, keep)
         IN  wrap(merge(cleaned_children))

(***************************************************************************)
(* The pages: every tree of at most MaxNodes nodes over a few text nodes   *)
(* and elements.                                                           *)
(***************************************************************************)
\* text nodes as the parser delivers them, whitespace included
TextNodes ==
    { NavigableString(<<" ">>),
      NavigableString(<<"x">>),
      NavigableString(<<" ", "y", " ", "&", "\n">>) }

\* hrefs "", "/r", "mailto:m", "http://h", "https://h" and the relative
\* "httpd"
Hrefs ==
    { <<>>,
      <<"/", "r">>,
      <<"m", "a", "i", "l", "t", "o", ":", "m">>,
      <<"h", "t", "t", "p", ":", "/", "/", "h">>,
      <<"h", "t", "t", "p", "s", ":", "/", "/", "h">>,
      <<"h", "t", "t", "p", "d">> }

\* attribute sets of an <a>: no href, or one of Hrefs
AnchorAttrs == {{}} \cup { {<<"href", h>>} : h \in Hrefs }

\* the attribute sets of the <a> start tags the parser is fed
FewAnchorAttrs == { {<<"href", <<>> >>}, {<<"href", <<"h", "t", "t", "p", ":", "/", "/", "h">> >>} }

\* the start tags the parser is fed
StartTags ==
    {Tag("div", {}, <<>>)} \cup { Tag("a", at, <<>>) : at \in FewAnchorAttrs }

\* the most nodes below the <a> of a page of AnchorBodies
MaxAnchorNodes == 3

\* children of an <a>: text nodes and <div>s only
RECURSIVE InlineTrees(_)
RECURSIVE InlineForests(_)
InlineTrees(n) ==
    (IF n = 1 THEN TextNodes ELSE {})
        \cup { Tag("div", {}, f) : f \in InlineForests(n - 1) }

InlineForests(n) ==
    IF n = 0 THEN {<<>>}
    ELSE UNION { { <<t>> \o f : t \in InlineTrees(k), f \in InlineForests(n - k) }
                 : k \in 1..n }

\* a body holding one <a> of any href, with or without a text before and
\* after it
AnchorBodies ==
    LET around == {<<>>, <<NavigableString(<<"x">>)>>}
        kids == UNION { InlineForests(n) : n \in 0..MaxAnchorNodes }
    IN  { Tag("body", {}, pre \o <<Tag("a", at, k)>> \o post) :
            pre \in around, post \in around, at \in AnchorAttrs, k \in kids }

\* the longest text of a page of TextBodies
MaxTextLen == 4

Chars == {" ", "\n", "x", "&"}

\* the non-empty strings over Chars of at most n characters
RECURSIVE Strings(_)
Strings(n) ==
    IF n = 0 THEN {<<>>}
    ELSE Strings(n - 1) \cup { Append(t, c) : t \in Strings(n - 1), c \in Chars }

\* a body holding one text node
TextBodies ==
    { Tag("body", {}, <<NavigableString(t)>>) : t \in Strings(MaxTextLen) \ {<<>>} }

(***************************************************************************)
(* Markup: str(tag) and BeautifulSoup(html, 'html.parser').  Markup is a   *)
(* sequence of tokens: a start tag, an end tag, or one character of text,  *)
(* which is a plain character or an entity.                                *)
(***************************************************************************)
StartTag(name, attrs) == [type |-> "start", name |-> name, attrs |-> attrs, c |-> ""]
EndTag(name) == [type |-> "end", name |-> name, attrs |-> {}, c |-> ""]
Data(c) == [type |-> "data", name |-> "", attrs |-> {}, c |-> c]

\* the formatter of decode(): & < > become entities
escape(c) ==
    CASE c = "&" -> "&amp;"
      [] c = "<" -> "&lt;"
      [] c = ">" -> "&gt;"
      [] OTHER -> c

\* the parser's character references
unescape(c) ==
    CASE c = "&amp;" -> "&"
      [] c = "&lt;" -> "<"
      [] c = "&gt;" -> ">"
      [] OTHER -> c

escape_attrs(attrs) ==
    { <<p[1], [i \in 1..Len(p[2]) |-> escape(p[2][i])]>> : p \in attrs }

unescape_attrs(attrs) ==
    { <<p[1], [i \in 1..Len(p[2]) |-> unescape(p[2][i])]>> : p \in attrs }

\* Tag.decode() and the output of a NavigableString inside it
RECURSIVE decode(_)
decode(node) ==
    IF node.kind = "NavigableString"
    THEN [i \in 1..Len(node.s) |-> Data(escape(node.s[i]))]
    ELSE <<StartTag(node.name, escape_attrs(node.attrs))>>
             \o Flatten([i \in 1..Len(node.contents) |-> decode(node.contents[i])])
             \o <<EndTag(node.name)>>

\* str(cleaned): a Python str is itself, unescaped; a Tag is decoded
str(x) ==
    IF x.kind = "str" THEN [i \in 1..Len(x.s) |-> Data(x.s[i])] ELSE decode(x)

\* endData(): the text collected so far becomes one NavigableString of the
\* open tag; text of whitespace only becomes a single newline or space
end_data(stack, data) ==
    IF data = <<>> THEN stack
    ELSE LET text == IF \A i \in 1..Len(data) : data[i] \in Whitespace
                     THEN (IF \E i \in 1..Len(data) : data[i] = "\n"
                           THEN <<"\n">> ELSE <<" ">>)
                     ELSE data
             top == stack[Len(stack)]
         IN  [stack EXCEPT ![Len(stack)] =
                 [top EXCEPT !.contents = Append(top.contents, NavigableString(text))]]

\* popTag(): the innermost open tag is closed and becomes the last child of
\* the one below it
pop_tag(stack) ==
    LET n == Len(stack)
    IN  [SubSeq(stack, 1, n - 1) EXCEPT ![n - 1] =
            [stack[n - 1] EXCEPT !.contents = Append(stack[n - 1].contents, stack[n])]]

\* _popToTag(name): close the open tags down to the innermost one of that name
RECURSIVE pop_to_tag(_, _)
pop_to_tag(stack, name) ==
    IF Len(stack) <= 1 THEN stack
    ELSE IF stack[Len(stack)].name = name THEN pop_tag(stack)
    ELSE pop_to_tag(pop_tag(stack), name)

RECURSIVE pop_all(_)
pop_all(stack) == IF Len(stack) <= 1 THEN stack[1] ELSE pop_all(pop_tag(stack))

\* the feed loop; stack[1] is the BeautifulSoup object
RECURSIVE feed(_, _, _, _)
feed(html, i, stack, data) ==
    IF i > Len(html) THEN pop_all(end_data(stack, data))
    ELSE LET tok == html[i]
         IN  CASE tok.type = "data" ->
                    feed(html, i + 1, stack, Append(data, unescape(tok.c)))
               [] tok.type = "start" ->
                    feed(html, i + 1,
                         Append(end_data(stack, data),
                                Tag(tok.name, unescape_attrs(tok.attrs), <<>>)),
                         <<>>)
               [] tok.type = "end" ->
                    feed(html, i + 1,
                         (IF \E k \in 2..Len(stack) : stack[k].name = tok.name
                          THEN pop_to_tag(end_data(stack, data), tok.name)
                          ELSE end_data(stack, data)),
                         <<>>)

\* BeautifulSoup(html, 'html.parser')
BeautifulSoup(html) == feed(html, 1, <<Tag("[document]", {}, <<>>)>>, <<>>)

(***************************************************************************)
(* The /scrape handler from the parsed page on, and a second pass over its *)
(* own output.                                                             *)
(***************************************************************************)
\* the number of nodes of a tree
RECURSIVE Size(_)
RECURSIVE SizeOfAll(_)
Size(node) == 1 + SizeOfAll(node.contents)

SizeOfAll(nodes) == IF nodes = <<>> THEN 0 ELSE Size(Head(nodes)) + SizeOfAll(Tail(nodes))

\* either the parser is at the <body> start tag of a page, or a page of
\* AnchorBodies or TextBodies has been parsed
Init ==
    /\ \/ /\ pc = "parsing"
          /\ tagStack = <<Tag("body", {}, <<>>)>>
          /\ body = None
       \/ /\ pc = "parsed"
          /\ tagStack = <<>>
          /\ body \in AnchorBodies \cup TextBodies
    /\ cleaned = None
    /\ output_html = <<>>
    /\ reparsed = None
    /\ recleaned = None
    /\ page_source = <<>>
    /\ soup = None
    /\ input_text = <<>>
    /\ meaningful = FALSE
    /\ ServerOff

\* the parser meets a start tag: a new open element
handle_starttag ==
    /\ pc = "parsing"
    /\ SizeOfAll(tagStack) < MaxNodes
    /\ \E tag \in StartTags : tagStack' = Append(tagStack, tag)
    /\ UNCHANGED <<pc, body, cleaned, output_html, reparsed, recleaned>>
    /\ UNCHANGED <<assemblyVars, classifierVars, serverVars>>

\* the parser meets text: a new string in the innermost open element
handle_data ==
    /\ pc = "parsing"
    /\ SizeOfAll(tagStack) < MaxNodes
    /\ \E text \in TextNodes : tagStack' = end_data(tagStack, text.s)
    /\ UNCHANGED <<pc, body, cleaned, output_html, reparsed, recleaned>>
    /\ UNCHANGED <<assemblyVars, classifierVars, serverVars>>

\* the parser meets the end tag of the innermost open element
handle_endtag ==
    /\ pc = "parsing"
    /\ Len(tagStack) > 1
    /\ tagStack' = pop_tag(tagStack)
    /\ UNCHANGED <<pc, body, cleaned, output_html, reparsed, recleaned>>
    /\ UNCHANGED <<assemblyVars, classifierVars, serverVars>>

\* the parser meets </body>: body = soup.body
close ==
    /\ pc = "parsing"
    /\ Len(tagStack) = 1
    /\ body' = tagStack[1]
    /\ tagStack' = <<>>
    /\ pc' = "parsed"
    /\ UNCHANGED <<cleaned, output_html, reparsed, recleaned>>
    /\ UNCHANGED <<assemblyVars, classifierVars, serverVars>>

\* output_html = str(cleaned) if cleaned else ''
render_output(result) == IF Truthy(result) THEN str(result) ELSE <<>>

\* cleaned = clean_tag(body); output_html = str(cleaned) if cleaned else ''
scrape_url ==
    /\ pc = "parsed"
    /\ cleaned' = clean_tag(body)
    /\ output_html' = render_output(clean_tag(body))
    /\ pc' = "done"
    /\ UNCHANGED <<tagStack, body, reparsed, recleaned>>
    /\ UNCHANGED <<assemblyVars, classifierVars, serverVars>>

\* the output of a page that reduced to a <section> is parsed again and its
\* <section> element is reduced again
Reparse ==
    /\ pc = "done"
    /\ cleaned.kind = "Tag"
    /\ reparsed' = BeautifulSoup(output_html)
    /\ recleaned' = IF Len(BeautifulSoup(output_html).contents) = 1
                    THEN clean_tag(BeautifulSoup(output_html).contents[1])
                    ELSE None
    /\ pc' = "reparsed"
    /\ UNCHANGED <<tagStack, body, cleaned, output_html>>
    /\ UNCHANGED <<assemblyVars, classifierVars, serverVars>>

Next ==
    \/ handle_starttag
    \/ handle_data
    \/ handle_endtag
    \/ close
    \/ scrape_url
    \/ Reparse

Spec == Init /\ [][Next]_vars

(***************************************************************************)
(* Result assembly in the /scrape handler: the page source is parsed, the  *)
(* script and style elements are decomposed, and the body, or the whole    *)
(* document when there is no body, is reduced.                             *)
(***************************************************************************)
\* the largest number of nodes in the varying part of a page
MaxPageNodes == 3

\* the nodes of a page without children: text, blank text, a script and a
\* style element with their source text
PageLeaves ==
    { NavigableString(<<"x">>), NavigableString(<<" ">>),
      Tag("script", {}, <<NavigableString(<<"j">>)>>),
      Tag("style", {}, <<NavigableString(<<"c">>)>>) }

PageStartTags ==
    { <<"div", {}>>, <<"a", {<<"href", <<"h", "t", "t", "p", ":", "/", "/", "h">> >>}>> }

RECURSIVE PageTrees(_)
RECURSIVE PageForests(_)
\* the trees of exactly n nodes, a script or style element counting as one
PageTrees(n) ==
    IF n = 1
    THEN PageLeaves \cup { Tag(st[1], st[2], <<>>) : st \in PageStartTags }
    ELSE { Tag(st[1], st[2], f) : st \in PageStartTags, f \in PageForests(n - 1) }

PageForests(n) ==
    IF n = 0 THEN { <<>> }
    ELSE UNION { { <<t>> \o f : t \in PageTrees(k), f \in PageForests(n - k) } : k \in 1..n }

\* the page sources: a full document with a head, a bare body, and a
\* fragment without a body element
Pages ==
    LET head == Tag("head", {}, << Tag("title", {}, <<NavigableString(<<"t">>)>>),
                                   Tag("script", {}, <<NavigableString(<<"j">>)>>) >>)
        forests == UNION { PageForests(n) : n \in 0..MaxPageNodes }
    IN  { decode(Tag("html", {}, <<head, Tag("body", {}, f)>>)) : f \in forests }
            \cup { decode(Tag("body", {}, f)) : f \in forests }
            \cup { Flatten([i \in 1..Len(f) |-> decode(f[i])]) : f \in forests }

\* for tag in soup(['script', 'style']): tag.decompose(), on the children of
\* the document only
decompose_top_level(node, names) ==
    [node EXCEPT !.contents =
        SelectSeq(node.contents, LAMBDA c : ~(c.kind = "Tag" /\ c.name \in names))]

\* for tag in soup(['script', 'style']): tag.decompose()
RECURSIVE decompose_all(_, _)
decompose_all(node, names) ==
    IF node.kind # "Tag" THEN node
    ELSE LET kept == SelectSeq(node.contents,
                               LAMBDA c : ~(c.kind = "Tag" /\ c.name \in names))
         IN  [node EXCEPT !.contents =
                 [i \in 1..Len(kept) |-> decompose_all(kept[i], names)]]

\* tag.find(name): the first descendant tag of that name in document order
RECURSIVE find(_, _)
RECURSIVE find_in(_, _)
find(node, name) == find_in(node.contents, name)

find_in(nodes, name) ==
    IF nodes = <<>> THEN None
    ELSE LET first == Head(nodes)
         IN  IF first.kind = "Tag" /\ first.name = name THEN first
             ELSE IF first.kind = "Tag" /\ find(first, name) # None
                  THEN find(first, name)
                  ELSE find_in(Tail(nodes), name)

\* a page source has been read from the browser
InitAssembly ==
    /\ pc = "loaded"
    /\ page_source \in Pages
    /\ soup = None
    /\ tagStack = <<>>
    /\ body = None
    /\ cleaned = None
    /\ output_html = <<>>
    /\ reparsed = None
    /\ recleaned = None
    /\ input_text = <<>>
    /\ meaningful = FALSE
    /\ ServerOff

\* soup = BeautifulSoup(html, 'html.parser'); the script and style tags are
\* decomposed; body = soup.body or soup
select_body ==
    /\ pc = "loaded"
    /\ LET stripped == decompose_all(BeautifulSoup(page_source), {"script", "style"})
       IN  /\ soup' = stripped
           /\ body' = IF Truthy(find(stripped, "body"))
                      THEN find(stripped, "body") ELSE stripped
    /\ pc' = "parsed"
    /\ UNCHANGED <<tagStack, cleaned, output_html, reparsed, recleaned, page_source>>
    /\ UNCHANGED <<classifierVars, serverVars>>

NextAssembly ==
    \/ select_body
    \/ scrape_url

SpecAssembly == InitAssembly /\ [][NextAssembly]_vars

(***************************************************************************)
(* is_meaningful_text and the three compiled patterns it searches.  A      *)
(* pattern is a tree of character classes, sequences and repetitions, and  *)
(* Ends is the set of positions at which a match starting at i can end.    *)
(***************************************************************************)
Letters == {"a", "h", "t", "p", "s"}
Digits == {"1", "2", "3", "4", "5", "6", "7"}
\* \w
Word == Letters \cup Digits \cup {"_"}

\* [...]
Class(chars) == [op |-> "class", chars |-> chars]
\* [^...]
NotClass(chars) == [op |-> "notclass", chars |-> chars]
\* a literal string
Lit(s) == [op |-> "seq", parts |-> [i \in 1..Len(s) |-> Class({s[i]})]]
\* one pattern after the other
Cat(parts) == [op |-> "seq", parts |-> parts]
\* r{lo,hi}; hi = -1 is no upper limit
Rep(r, lo, hi) == [op |-> "rep", r |-> r, lo |-> lo, hi |-> hi]
\* r?
Opt(r) == Rep(r, 0, 1)
\* r+
Plus(r) == Rep(r, 1, -1)

RECURSIVE Ends(_, _, _)
RECURSIVE EndsSeq(_, _, _, _)
RECURSIVE EndsRep(_, _, _, _)
Ends(r, s, i) ==
    CASE r.op = "class" -> IF i <= Len(s) /\ s[i] \in r.chars THEN {i + 1} ELSE {}
      [] r.op = "notclass" -> IF i <= Len(s) /\ s[i] \notin r.chars THEN {i + 1} ELSE {}
      [] r.op = "seq" -> EndsSeq(r.parts, 1, s, {i})
      [] r.op = "rep" -> EndsRep(r, s, {i}, 0)

\* the ends of parts[k..] started at any of the positions in from
EndsSeq(parts, k, s, from) ==
    IF k > Len(parts) \/ from = {} THEN from
    ELSE EndsSeq(parts, k + 1, s, UNION { Ends(parts[k], s, i) : i \in from })

\* the ends of the remaining repetitions, n of them done, ending in from
EndsRep(r, s, from, n) ==
    (IF n >= r.lo THEN from ELSE {})
        \cup (IF from # {} /\ (r.hi = -1 \/ n < r.hi) /\ n <= Len(s)
              THEN EndsRep(r, s, UNION { Ends(r.r, s, i) : i \in from }, n + 1)
              ELSE {})

\* pattern.search(text), as a truth value
search(r, s) == \E i \in 1..(Len(s) + 1) : Ends(r, s, i) # {}

\* [\w\.-]+@[\w\.-]+\.\w+
email_pattern ==
    Cat(<< Plus(Class(Word \cup {".", "-"})), Lit(<<"@">>),
           Plus(Class(Word \cup {".", "-"})), Lit(<<".">>), Plus(Class(Word)) >>)

\* (\+?\d{1,3}[-.\s]?)?(\(?\d{3}\)?[-.\s]?){1,2}\d{4}
phone_pattern ==
    Cat(<< Opt(Cat(<< Opt(Lit(<<"+">>)), Rep(Class(Digits), 1, 3),
                      Opt(Class({"-", "."} \cup Whitespace)) >>)),
           Rep(Cat(<< Opt(Lit(<<"(">>)), Rep(Class(Digits), 3, 3), Opt(Lit(<<")">>)),
                      Opt(Class({"-", "."} \cup Whitespace)) >>), 1, 2),
           Rep(Class(Digits), 4, 4) >>)

\* https?://[^\s]+
url_pattern ==
    Cat(<< Lit(<<"h", "t", "t", "p">>), Opt(Lit(<<"s">>)), Lit(<<":", "/", "/">>),
           Plus(NotClass(Whitespace)) >>)

\* is_meaningful_text with "if text:" as its last test
is_meaningful_text_nostrip(t) ==
    IF search(email_pattern, t) THEN TRUE
    ELSE IF search(phone_pattern, t) THEN TRUE
    ELSE IF search(url_pattern, t) THEN TRUE
    ELSE IF t # <<>> THEN TRUE
    ELSE FALSE

is_meaningful_text(t) ==
    IF search(email_pattern, t) THEN TRUE
    ELSE IF search(phone_pattern, t) THEN TRUE
    ELSE IF search(url_pattern, t) THEN TRUE
    ELSE IF strip(t) # <<>> THEN TRUE
    ELSE FALSE

\* the largest number of pieces in a classified text
MaxPieces == 3

\* the pieces the classified texts are made of
Pieces ==
    { <<" ">>, <<"\n">>, <<"a">>, <<".">>, <<"a", "@", "a">>, <<"1", "2", "3">>,
      <<"4", "5", "6", "7">>, <<"h", "t", "t", "p", ":", "/", "/">>,
      <<"h", "t", "t", "p", "s", ":", "/", "/">>, <<"(">>, <<")">>, <<"-">>, <<"+">> }

RECURSIVE Texts(_)
\* the texts of at most n pieces
Texts(n) ==
    IF n = 0 THEN { <<>> }
    ELSE Texts(n - 1) \cup { t \o p : t \in Texts(n - 1), p \in Pieces }

\* a text is about to be classified
InitClassifier ==
    /\ pc = "text"
    /\ input_text \in Texts(MaxPieces)
    /\ meaningful = FALSE
    /\ ServerOff
    /\ tagStack = <<>>
    /\ body = None
    /\ cleaned = None
    /\ output_html = <<>>
    /\ reparsed = None
    /\ recleaned = None
    /\ page_source = <<>>
    /\ soup = None

\* meaningful = is_meaningful_text(input_text)
classify ==
    /\ pc = "text"
    /\ meaningful' = is_meaningful_text(input_text)
    /\ pc' = "classified"
    /\ UNCHANGED <<tagStack, body, cleaned, output_html, reparsed, recleaned>>
    /\ UNCHANGED <<assemblyVars, input_text, serverVars>>

NextClassifier == classify

SpecClassifier == InitClassifier /\ [][NextClassifier]_vars

(***************************************************************************)
(* The server: request threads of /search, /scrape, /status and /restart   *)
(* share one SingleBrowserManager.  A browser instance is a number, 0 is   *)
(* None, and a call into the browser takes two steps: the thread enters    *)
(* the call (enter_call) and the call returns in the step of the statement *)
(* that made it.  threading.Lock is not reentrant: acquiring it waits      *)
(* until it is free, whoever holds it.  The name Service of line 128 is    *)
(* taken to be bound, so that setup_driver reaches its try block.          *)
(***************************************************************************)
\* the number of request threads
NumThreads == 2

\* the number of browser instances that can be launched
MaxDrivers == 2

\* the largest number of results extracted from one page
MaxResultsPerPage == 2

\* the largest max_pages sent to a server of several threads
MaxPagesSent == 2

Threads == 1..NumThreads

NoResponse == [status |-> 0, pages_scraped |-> 0, total_results |-> 0, results |-> <<>>]

Error(code) == [status |-> code, pages_scraped |-> 0, total_results |-> 0, results |-> <<>>]

Ok == [status |-> 200, pages_scraped |-> 0, total_results |-> 0, results |-> <<>>]

\* the requests of the four routes, the searches with the given max_pages
Requests(pages) ==
    { [route |-> "/search", max_pages |-> n] : n \in pages }
        \cup { [route |-> r, max_pages |-> 0] : r \in {"/scrape", "/status", "/restart"} }

\* the state after SingleBrowserManager() with the given threads serving:
\* setup_driver launched the first browser or failed to
InitManager(serving) ==
    /\ \/ driver = 1 /\ alive = {1} /\ created = 1
       \/ driver = 0 /\ alive = {} /\ created = 0
    /\ quit = {}
    /\ lock = 0
    /\ calling = [t \in Threads |-> 0]
    /\ tpc = [t \in Threads |-> IF t \in serving THEN "idle" ELSE "off"]
    /\ ret = [t \in Threads |-> ""]
    /\ rs_ret = [t \in Threads |-> ""]
    /\ returned = [t \in Threads |-> 0]
    /\ local = [t \in Threads |-> 0]
    /\ route = [t \in Threads |-> ""]
    /\ max_pages = [t \in Threads |-> 0]
    /\ current_page = [t \in Threads |-> 0]
    /\ all_results = [t \in Threads |-> <<>>]
    /\ response = [t \in Threads |-> NoResponse]

\* no page is being reduced and no text classified
ScraperOff ==
    /\ pc = "" /\ tagStack = <<>> /\ body = None /\ cleaned = None
    /\ output_html = <<>> /\ reparsed = None /\ recleaned = None
    /\ page_source = <<>> /\ soup = None
    /\ input_text = <<>> /\ meaningful = FALSE

\* all threads serve, the clients ask for few pages
InitServer ==
    /\ InitManager(Threads)
    /\ clients = Requests(1..MaxPagesSent)
    /\ ScraperOff

\* one thread serves, the clients ask for any number of pages
InitSearch ==
    /\ InitManager({1})
    /\ clients = Requests(-1..12)
    /\ ScraperOff

goto(t, label) == tpc' = [tpc EXCEPT ![t] = label]

\* the handler returns its response
respond(t, r) ==
    /\ response' = [response EXCEPT ![t] = r]
    /\ goto(t, "idle")

\* the thread is at a statement that calls into the browser
AtBrowserCall(t) ==
    \/ tpc[t] \in {"is_healthy", "restart_quit"} /\ driver # 0
    \/ tpc[t] \in {"setup_driver", "status_probe", "status_url", "scrape_load",
                   "search_load", "extract", "navigate"}

\* the instance the call is made to; setup_driver launches the next one
CallTarget(t) ==
    CASE tpc[t] \in {"is_healthy", "restart_quit", "status_probe"} -> driver
      [] tpc[t] = "setup_driver" -> created + 1
      [] tpc[t] \in {"extract", "navigate"} -> returned[t]
      [] OTHER -> local[t]

\* the thread enters the browser call of its statement
enter_call(t) ==
    /\ AtBrowserCall(t)
    /\ calling[t] = 0
    /\ calling' = [calling EXCEPT ![t] = CallTarget(t)]
    /\ UNCHANGED <<driver, alive, quit, created, lock, threadVars, requestVars>>
    /\ UNCHANGED <<reducerVars, assemblyVars, classifierVars>>

\* the call the thread is in returns
leave_call(t) ==
    /\ calling[t] # 0
    /\ calling' = [calling EXCEPT ![t] = 0]

\* the browser crashes or stops responding
crash ==
    /\ driver \in alive
    /\ alive' = alive \ {driver}
    /\ UNCHANGED <<driver, quit, created, lock, calling, threadVars, requestVars>>
    /\ UNCHANGED <<reducerVars, assemblyVars, classifierVars>>

\* a request arrives; max_pages is clamped to 1..10, and the handlers of
\* /search, /scrape and /status begin with get_driver()
request(t) ==
    /\ tpc[t] = "idle"
    /\ \E r \in clients :
        /\ route' = [route EXCEPT ![t] = r.route]
        /\ max_pages' = [max_pages EXCEPT ![t] =
               IF r.route # "/search" THEN 0
               ELSE IF r.max_pages < 1 THEN 1
               ELSE IF r.max_pages > 10 THEN 10 ELSE r.max_pages]
        /\ IF r.route = "/restart"
           THEN /\ goto(t, "restart_driver")
                /\ rs_ret' = [rs_ret EXCEPT ![t] = "restarted"]
                /\ UNCHANGED ret
           ELSE /\ goto(t, "is_healthy")
                /\ ret' = [ret EXCEPT ![t] =
                       CASE r.route = "/search" -> "search_check"
                         [] r.route = "/scrape" -> "scrape_check"
                         [] OTHER -> "status_check"]
                /\ UNCHANGED rs_ret
    /\ response' = [response EXCEPT ![t] = NoResponse]
    /\ current_page' = [current_page EXCEPT ![t] = 0]
    /\ all_results' = [all_results EXCEPT ![t] = <<>>]
    /\ UNCHANGED <<managerVars, returned, local, clients>>
    /\ UNCHANGED <<reducerVars, assemblyVars, classifierVars>>

\* is_healthy() in get_driver: False for no driver, else the answer of
\* driver.current_url; an unhealthy driver is restarted
is_healthy(t) ==
    /\ tpc[t] = "is_healthy"
    /\ IF driver = 0
       THEN /\ calling[t] = 0
            /\ goto(t, "restart_driver")
            /\ rs_ret' = [rs_ret EXCEPT ![t] = "return_driver"]
            /\ UNCHANGED calling
       ELSE /\ leave_call(t)
            /\ IF calling[t] \in alive
               THEN goto(t, "return_driver") /\ UNCHANGED rs_ret
               ELSE /\ goto(t, "restart_driver")
                    /\ rs_ret' = [rs_ret EXCEPT ![t] = "return_driver"]
    /\ UNCHANGED <<driver, alive, quit, created, lock, ret, returned, local, requestVars>>
    /\ UNCHANGED <<reducerVars, assemblyVars, classifierVars>>

\* with self.lock: in restart_driver
restart_driver(t) ==
    /\ tpc[t] = "restart_driver"
    /\ lock = 0
    /\ lock' = t
    /\ goto(t, "restart_quit")
    /\ UNCHANGED <<driver, alive, quit, created, calling, ret, rs_ret, returned, local>>
    /\ UNCHANGED <<requestVars, reducerVars, assemblyVars, classifierVars>>

\* if self.driver: self.driver.quit()
restart_quit(t) ==
    /\ tpc[t] = "restart_quit"
    /\ IF driver = 0
       THEN calling[t] = 0 /\ UNCHANGED <<calling, alive, quit>>
       ELSE /\ leave_call(t)
            /\ alive' = alive \ {calling[t]}
            /\ quit' = quit \cup {calling[t]}
    /\ goto(t, "setup_driver")
    /\ UNCHANGED <<driver, created, lock, ret, rs_ret, returned, local>>
    /\ UNCHANGED <<requestVars, reducerVars, assemblyVars, classifierVars>>

\* return self.setup_driver(): webdriver.Chrome(...) launches a browser or
\* raises, which leaves self.driver as it was; the lock is released
setup_driver(t) ==
    /\ tpc[t] = "setup_driver"
    /\ leave_call(t)
    /\ \/ /\ created < MaxDrivers
          /\ driver' = created + 1
          /\ created' = created + 1
          /\ alive' = alive \cup {created + 1}
       \/ UNCHANGED <<driver, created, alive>>
    /\ lock' = 0
    /\ goto(t, rs_ret[t])
    /\ UNCHANGED <<quit, ret, rs_ret, returned, local>>
    /\ UNCHANGED <<requestVars, reducerVars, assemblyVars, classifierVars>>

\* return self.driver, the last statement of get_driver
return_driver(t) ==
    /\ tpc[t] = "return_driver"
    /\ returned' = [returned EXCEPT ![t] = driver]
    /\ goto(t, ret[t])
    /\ UNCHANGED <<managerVars, ret, rs_ret, local>>
    /\ UNCHANGED <<requestVars, reducerVars, assemblyVars, classifierVars>>

\* /restart, and /status after its except branch: restart_driver returned
restarted(t) ==
    /\ tpc[t] = "restarted"
    /\ respond(t, Ok)
    /\ UNCHANGED <<managerVars, ret, rs_ret, returned, local>>
    /\ UNCHANGED <<route, max_pages, current_page, all_results, clients>>
    /\ UNCHANGED <<reducerVars, assemblyVars, classifierVars>>

\* /status: driver = get_driver(); if driver and ...
status_check(t) ==
    /\ tpc[t] = "status_check"
    /\ local' = [local EXCEPT ![t] = returned[t]]
    /\ IF returned[t] = 0
       THEN respond(t, Error(500))
       ELSE goto(t, "status_probe") /\ UNCHANGED response
    /\ UNCHANGED <<managerVars, ret, rs_ret, returned>>
    /\ UNCHANGED <<route, max_pages, current_page, all_results, clients>>
    /\ UNCHANGED <<reducerVars, assemblyVars, classifierVars>>

\* ... browser_manager.is_healthy()
status_probe(t) ==
    /\ tpc[t] = "status_probe"
    /\ leave_call(t)
    /\ IF calling[t] \in alive
       THEN goto(t, "status_url") /\ UNCHANGED response
       ELSE respond(t, Error(500))
    /\ UNCHANGED <<driver, alive, quit, created, lock, ret, rs_ret, returned, local>>
    /\ UNCHANGED <<route, max_pages, current_page, all_results, clients>>
    /\ UNCHANGED <<reducerVars, assemblyVars, classifierVars>>

\* current_url = driver.current_url; when it raises the browser is
\* restarted
status_url(t) ==
    /\ tpc[t] = "status_url"
    /\ leave_call(t)
    /\ IF calling[t] \in alive
       THEN respond(t, Ok) /\ UNCHANGED rs_ret
       ELSE /\ goto(t, "restart_driver")
            /\ rs_ret' = [rs_ret EXCEPT ![t] = "restarted"]
            /\ UNCHANGED response
    /\ UNCHANGED <<driver, alive, quit, created, lock, ret, returned, local>>
    /\ UNCHANGED <<route, max_pages, current_page, all_results, clients>>
    /\ UNCHANGED <<reducerVars, assemblyVars, classifierVars>>

\* /scrape: driver = browser_manager.get_driver(); if not driver: 500
scrape_check(t) ==
    /\ tpc[t] = "scrape_check"
    /\ local' = [local EXCEPT ![t] = returned[t]]
    /\ IF returned[t] = 0
       THEN respond(t, Error(500))
       ELSE goto(t, "scrape_lock") /\ UNCHANGED response
    /\ UNCHANGED <<managerVars, ret, rs_ret, returned>>
    /\ UNCHANGED <<route, max_pages, current_page, all_results, clients>>
    /\ UNCHANGED <<reducerVars, assemblyVars, classifierVars>>

\* with browser_manager.lock: in scrape_url
scrape_lock(t) ==
    /\ tpc[t] = "scrape_lock"
    /\ lock = 0
    /\ lock' = t
    /\ goto(t, "scrape_load")
    /\ UNCHANGED <<driver, alive, quit, created, calling, ret, rs_ret, returned, local>>
    /\ UNCHANGED <<requestVars, reducerVars, assemblyVars, classifierVars>>

\* driver.get(url), the wait and driver.page_source; when they raise the
\* response is 400; the lock is released
scrape_load(t) ==
    /\ tpc[t] = "scrape_load"
    /\ leave_call(t)
    /\ lock' = 0
    /\ respond(t, IF calling[t] \in alive THEN Ok ELSE Error(400))
    /\ UNCHANGED <<driver, alive, quit, created, ret, rs_ret, returned, local>>
    /\ UNCHANGED <<route, max_pages, current_page, all_results, clients>>
    /\ UNCHANGED <<reducerVars, assemblyVars, classifierVars>>

\* search_duckduckgo: driver = get_driver(); if not driver: error
search_check(t) ==
    /\ tpc[t] = "search_check"
    /\ local' = [local EXCEPT ![t] = returned[t]]
    /\ IF returned[t] = 0
       THEN respond(t, Error(500))
       ELSE goto(t, "search_lock") /\ UNCHANGED response
    /\ UNCHANGED <<managerVars, ret, rs_ret, returned>>
    /\ UNCHANGED <<route, max_pages, current_page, all_results, clients>>
    /\ UNCHANGED <<reducerVars, assemblyVars, classifierVars>>

\* with self.browser_manager.lock: in search_duckduckgo
search_lock(t) ==
    /\ tpc[t] = "search_lock"
    /\ lock = 0
    /\ lock' = t
    /\ goto(t, "search_load")
    /\ UNCHANGED <<driver, alive, quit, created, calling, ret, rs_ret, returned, local>>
    /\ UNCHANGED <<requestVars, reducerVars, assemblyVars, classifierVars>>

\* driver.get(search_url); all_results = []; current_page = 1; when the
\* call raises the lock is released and the search is an error
search_load(t) ==
    /\ tpc[t] = "search_load"
    /\ leave_call(t)
    /\ IF calling[t] \in alive
       THEN /\ all_results' = [all_results EXCEPT ![t] = <<>>]
            /\ current_page' = [current_page EXCEPT ![t] = 1]
            /\ goto(t, "while")
            /\ UNCHANGED <<lock, response>>
       ELSE /\ lock' = 0
            /\ respond(t, Error(500))
            /\ UNCHANGED <<all_results, current_page>>
    /\ UNCHANGED <<driver, alive, quit, created, ret, rs_ret, returned, local>>
    /\ UNCHANGED <<route, max_pages, clients>>
    /\ UNCHANGED <<reducerVars, assemblyVars, classifierVars>>

\* while current_page <= max_pages: extract_results_from_page begins with
\* get_driver(); after the loop the result is returned
search_loop(t) ==
    /\ tpc[t] = "while"
    /\ IF current_page[t] <= max_pages[t]
       THEN /\ goto(t, "is_healthy")
            /\ ret' = [ret EXCEPT ![t] = "extract"]
       ELSE goto(t, "return") /\ UNCHANGED ret
    /\ UNCHANGED <<managerVars, rs_ret, returned, local>>
    /\ UNCHANGED <<requestVars, reducerVars, assemblyVars, classifierVars>>

\* the results of a page, numbered on from those already found
page_results(found, page_num, n) ==
    [i \in 1..n |-> [page |-> page_num, position |-> Len(found) + i]]

\* page_results = self.extract_results_from_page(current_page): the wait
\* raises on a dead browser and the search is an error; no results end the
\* loop; else they are appended and, before the last page, the next page is
\* navigated to, which begins with get_driver()
extract(t) ==
    /\ tpc[t] = "extract"
    /\ leave_call(t)
    /\ IF calling[t] \notin alive
       THEN /\ lock' = 0
            /\ respond(t, Error(500))
            /\ UNCHANGED <<all_results, current_page, ret>>
       ELSE /\ UNCHANGED <<lock, response>>
            /\ \E n \in 0..MaxResultsPerPage :
                IF n = 0
                THEN goto(t, "return") /\ UNCHANGED <<all_results, current_page, ret>>
                ELSE /\ all_results' = [all_results EXCEPT ![t] =
                            @ \o page_results(@, current_page[t], n)]
                     /\ IF current_page[t] < max_pages[t]
                        THEN /\ goto(t, "is_healthy")
                             /\ ret' = [ret EXCEPT ![t] = "navigate"]
                             /\ UNCHANGED current_page
                        ELSE /\ current_page' = [current_page EXCEPT ![t] = @ + 1]
                             /\ goto(t, "while")
                             /\ UNCHANGED ret
    /\ UNCHANGED <<driver, alive, quit, created, rs_ret, returned, local>>
    /\ UNCHANGED <<route, max_pages, clients>>
    /\ UNCHANGED <<reducerVars, assemblyVars, classifierVars>>

\* if not self.navigate_to_next_page(): break; else current_page += 1
navigate(t) ==
    /\ tpc[t] = "navigate"
    /\ leave_call(t)
    /\ \/ /\ calling[t] \in alive
          /\ current_page' = [current_page EXCEPT ![t] = @ + 1]
          /\ goto(t, "while")
       \/ /\ goto(t, "return")
          /\ UNCHANGED current_page
    /\ UNCHANGED <<driver, alive, quit, created, lock, ret, rs_ret, returned, local>>
    /\ UNCHANGED <<route, max_pages, all_results, response, clients>>
    /\ UNCHANGED <<reducerVars, assemblyVars, classifierVars>>

\* the result of the search is returned and the lock released
search_return(t) ==
    /\ tpc[t] = "return"
    /\ lock' = 0
    /\ respond(t, [status |-> 200,
                   pages_scraped |-> current_page[t] - 1,
                   total_results |-> Len(all_results[t]),
                   results |-> all_results[t]])
    /\ UNCHANGED <<driver, alive, quit, created, calling, ret, rs_ret, returned, local>>
    /\ UNCHANGED <<route, max_pages, current_page, all_results, clients>>
    /\ UNCHANGED <<reducerVars, assemblyVars, classifierVars>>

\* the steps of one thread
Step(t) ==
    \/ enter_call(t) \/ request(t)
    \/ is_healthy(t) \/ restart_driver(t) \/ restart_quit(t) \/ setup_driver(t)
    \/ return_driver(t) \/ restarted(t)
    \/ status_check(t) \/ status_probe(t) \/ status_url(t)
    \/ scrape_check(t) \/ scrape_lock(t) \/ scrape_load(t)
    \/ search_check(t) \/ search_lock(t) \/ search_load(t) \/ search_loop(t)
    \/ extract(t) \/ navigate(t) \/ search_return(t)

NextServer ==
    \/ crash
    \/ \E t \in Threads : enter_call(t)
    \/ \E t \in Threads : request(t)
    \/ \E t \in Threads : is_healthy(t)
    \/ \E t \in Threads : restart_driver(t)
    \/ \E t \in Threads : restart_quit(t)
    \/ \E t \in Threads : setup_driver(t)
    \/ \E t \in Threads : return_driver(t)
    \/ \E t \in Threads : restarted(t)
    \/ \E t \in Threads : status_check(t)
    \/ \E t \in Threads : status_probe(t)
    \/ \E t \in Threads : status_url(t)
    \/ \E t \in Threads : scrape_check(t)
    \/ \E t \in Threads : scrape_lock(t)
    \/ \E t \in Threads : scrape_load(t)
    \/ \E t \in Threads : search_check(t)
    \/ \E t \in Threads : search_lock(t)
    \/ \E t \in Threads : search_load(t)
    \/ \E t \in Threads : search_loop(t)
    \/ \E t \in Threads : extract(t)
    \/ \E t \in Threads : navigate(t)
    \/ \E t \in Threads : search_return(t)

\* concurrent requests
SpecServer == InitServer /\ [][NextServer]_vars

\* the requests of one thread, with every max_pages
SpecSearch == InitSearch /\ [][NextServer]_vars

(***************************************************************************)
(* The vocabulary of the properties.  Empty is None, a Text is a string, an *)
(* AnchorNode is an <a> tag clean_tag built and a GroupNode is a <section> *)
(* it built, whose items are its contents without the separating ' '.       *)
(***************************************************************************)
Done == pc \in {"done", "reparsed"}

RECURSIVE Subnodes(_)
Subnodes(node) ==
    {node} \cup UNION { Subnodes(node.contents[i]) : i \in 1..Len(node.contents) }

\* the nodes of a page clean_tag is called on: it does not descend into an <a>
RECURSIVE Visited(_)
Visited(node) ==
    {node} \cup (IF node.kind = "Tag" /\ node.name # "a"
                 THEN UNION { Visited(node.contents[i]) : i \in 1..Len(node.contents) }
                 ELSE {})

IsTag(x) == x.kind = "Tag"
IsSection(x) == x.kind = "Tag" /\ x.name = "section"
IsAnchor(x) == x.kind = "Tag" /\ x.name = "a"
IsGeneric(x) == x.kind = "Tag" /\ x.name # "a"

Items(g) == SelectSeq(g.contents, LAMBDA c : c # NavigableString(<<" ">>))

Sections(x) == { n \in Subnodes(x) : IsSection(n) }

\* the results of the children of an element, the Empty ones discarded
ChildResults(e) ==
    SelectSeq([i \in 1..Len(e.contents) |-> clean_tag(e.contents[i])],
              LAMBDA r : r # None)

\* a string without its leading and trailing whitespace, by positions
NonBlank(s) == { i \in 1..Len(s) : s[i] \notin Whitespace }

Trimmed(s) ==
    IF NonBlank(s) = {} THEN <<>>
    ELSE SubSeq(s, CHOOSE i \in NonBlank(s) : \A j \in NonBlank(s) : i <= j,
                   CHOOSE i \in NonBlank(s) : \A j \in NonBlank(s) : i >= j)

\* the text leaves of a subtree in document order
RECURSIVE Leaves(_)
Leaves(node) ==
    IF node.kind = "NavigableString" THEN <<node.s>>
    ELSE Flatten([i \in 1..Len(node.contents) |-> Leaves(node.contents[i])])

\* the trimmed non-blank text leaves of a subtree in document order
TrimmedLeaves(node) ==
    LET trimmed == [i \in 1..Len(Leaves(node)) |-> Trimmed(Leaves(node)[i])]
    IN  SelectSeq(trimmed, LAMBDA t : t # <<>>)

\* strings put one after the other with one space between neighbours
RECURSIVE Spaced(_)
Spaced(strings) ==
    IF Len(strings) = 0 THEN <<>>
    ELSE IF Len(strings) = 1 THEN strings[1]
    ELSE Spaced(SubSeq(strings, 1, Len(strings) - 1)) \o <<" ">> \o strings[Len(strings)]

(***************************************************************************)
(* C1                                                                      *)
(***************************************************************************)
\* C1 as stated: every GroupNode clean produces, at any depth, holds at
\* least 2 items.
C1_AtLeastTwoItems ==
    Done => \A g \in Sections(cleaned) : Len(Items(g)) >= 2

\* C1 amended: every GroupNode holds at least 1 item; a lone item is
\* returned bare only when it is a Text, and a lone AnchorNode or GroupNode
\* is wrapped in a GroupNode of one item.
C1_LoneTextUnwrapped ==
    Done =>
      /\ \A g \in Sections(cleaned) :
            /\ Len(Items(g)) >= 1
            /\ Len(Items(g)) = 1 => IsTag(Items(g)[1])
      /\ \A e \in Visited(body) : IsGeneric(e) =>
            LET results == ChildResults(e)
            IN  /\ (Len(results) = 1 /\ IsTag(results[1])) =>
                      /\ IsSection(clean_tag(e))
                      /\ Items(clean_tag(e)) = results
                /\ (results # <<>> /\ \A i \in 1..Len(results) : ~IsTag(results[i])) =>
                      clean_tag(e).kind = "str"

\* an element with a lone anchor below it came out as a GroupNode of one item
C1_Witness ==
    /\ Done
    /\ \E g \in Sections(cleaned) : Len(Items(g)) = 1 /\ IsAnchor(Items(g)[1])

(***************************************************************************)
(* C2                                                                      *)
(***************************************************************************)
\* C2 as stated: no GroupNode contains a GroupNode as an item.
C2_NoNestedGroup ==
    Done => \A g \in Sections(cleaned) :
              \A i \in 1..Len(Items(g)) : ~IsSection(Items(g)[i])

\* C2 amended: a child that reduces to a GroupNode stays one item of its
\* parent's GroupNode (nothing is spliced), so the items of a GroupNode are
\* Texts, AnchorNodes and GroupNodes, and its non-Text items are exactly the
\* anchors and groups its children reduced to, in order.
C2_ChildGroupIsOneItem ==
    Done => \A e \in Visited(body) : (IsGeneric(e) /\ IsSection(clean_tag(e))) =>
              LET items == Items(clean_tag(e))
              IN  /\ SelectSeq(items, IsTag) = SelectSeq(ChildResults(e), IsTag)
                  /\ \A i \in 1..Len(items) :
                        \/ items[i].kind = "NavigableString"
                        \/ IsAnchor(items[i])
                        \/ IsSection(items[i])

\* a GroupNode of two or more items is an item of another GroupNode
C2_Witness ==
    /\ Done
    /\ \E g \in Sections(cleaned) : \E i \in 1..Len(Items(g)) :
          IsSection(Items(g)[i]) /\ Len(Items(Items(g)[i])) >= 2

(***************************************************************************)
(* C3                                                                      *)
(***************************************************************************)
\* a list of results as one sequence: a Text gives its characters, a space
\* goes between two neighbouring Texts, any other item stands for itself
RECURSIVE Spread(_)
Spread(results) ==
    IF results = <<>> THEN <<>>
    ELSE LET first == Head(results)
         IN  IF IsTag(first) THEN <<first>> \o Spread(Tail(results))
             ELSE first.s
                    \o (IF Len(results) > 1 /\ ~IsTag(results[2]) THEN <<" ">> ELSE <<>>)
                    \o Spread(Tail(results))

\* C3: no GroupNode has two adjacent Text items; every maximal run of Text
\* child results is one Text item, the run joined by single spaces, in order.
C3_TextRunsMerged ==
    Done => \A e \in Visited(body) : (IsGeneric(e) /\ IsSection(clean_tag(e))) =>
              LET items == Items(clean_tag(e))
              IN  /\ \A i \in 1..(Len(items) - 1) :
                        ~(items[i].kind = "NavigableString"
                            /\ items[i + 1].kind = "NavigableString")
                  /\ Spread(items) = Spread(ChildResults(e))

\* a GroupNode one of whose Text items is a run of two child Texts
C3_Witness ==
    /\ Done
    /\ \E e \in Visited(body) :
          /\ IsGeneric(e) /\ IsSection(clean_tag(e))
          /\ \E i \in 1..(Len(ChildResults(e)) - 1) :
                ~IsTag(ChildResults(e)[i]) /\ ~IsTag(ChildResults(e)[i + 1])

(***************************************************************************)
(* C4                                                                      *)
(***************************************************************************)
\* href begins with mailto:, http: or https:
HasLinkScheme(href) ==
    \/ startswith(href, <<"m", "a", "i", "l", "t", "o", ":">>)
    \/ startswith(href, <<"h", "t", "t", "p", ":">>)
    \/ startswith(href, <<"h", "t", "t", "p", "s", ":">>)

\* C4: every AnchorNode in a result has a non-empty href that begins with
\* mailto: or with the http or https scheme, and an <a> whose href fails the
\* test reduces to the Text of its visible text, or to Empty.
C4_AnchorHrefHasScheme ==
    Done =>
      /\ \A n \in Subnodes(cleaned) : IsAnchor(n) =>
            Get(n, "href", <<>>) # <<>> /\ HasLinkScheme(Get(n, "href", <<>>))
      /\ \A e \in Visited(body) :
            (IsAnchor(e) /\ ~HasLinkScheme(Get(e, "href", <<>>))) =>
                ~IsTag(clean_tag(e))

(***************************************************************************)
(* C5                                                                      *)
(***************************************************************************)
\* the visible text of an element: all its descendant text, one after the
\* other
VisibleText(e) == Flatten(Leaves(e))

\* C5: an <a> whose href starts with mailto: or http reduces to the
\* AnchorNode of that href and of its trimmed visible text, also when that
\* text is empty, and the enclosing element keeps it as an item of its own.
C5_AnchorKeepsTrimmedText ==
    Done => \A e \in Visited(body) :
      (IsAnchor(e) /\ (startswith(Get(e, "href", <<>>), mailto)
                          \/ startswith(Get(e, "href", <<>>), http))) =>
          clean_tag(e) = Tag("a", {<<"href", Get(e, "href", <<>>)>>},
                             <<NavigableString(Trimmed(VisibleText(e)))>>)

(***************************************************************************)
(* C6                                                                      *)
(***************************************************************************)
\* C6: an element that is no <a> and has no <a> below it reduces to Empty
\* when it has no non-blank text leaf, and otherwise to one Text: its
\* trimmed non-blank text leaves in document order, single spaces between.
C6_AnchorFreeSubtreeIsOneText ==
    Done => \A e \in Visited(body) :
      (IsGeneric(e) /\ \A n \in Subnodes(e) : ~IsAnchor(n)) =>
          clean_tag(e) = IF TrimmedLeaves(e) = <<>> THEN None
                         ELSE Str(Spaced(TrimmedLeaves(e)))

\* children [blank, div[text], text]: the text of the nested element is
\* merged with the sibling text that follows it
C6_Witness ==
    /\ Done
    /\ Len(body.contents) = 3
    /\ body.contents[1] = NavigableString(<<" ">>)
    /\ body.contents[2] = Tag("div", {}, <<NavigableString(<<"x">>)>>)
    /\ body.contents[3] = NavigableString(<<" ", "y", " ", "&", "\n">>)
    /\ cleaned = Str(<<"x", " ", "y", " ", "&">>)

(***************************************************************************)
(* C7                                                                      *)
(***************************************************************************)
\* C7: a text node of whitespace only reduces to Empty, any other to the
\* Text of its content without the leading and trailing whitespace.
C7_TextNodeTrimmed ==
    Done => \A t \in Visited(body) : t.kind = "NavigableString" =>
      clean_tag(t) = IF \A i \in 1..Len(t.s) : t.s[i] \in Whitespace
                     THEN None
                     ELSE Str(Trimmed(t.s))

\* a text with whitespace at both ends and inside came out trimmed
C7_Witness ==
    /\ Done
    /\ body.contents = <<NavigableString(<<"\n", "x", "&", " ">>)>>
    /\ cleaned = Str(<<"x", "&">>)

(***************************************************************************)
(* C8                                                                      *)
(***************************************************************************)
\* C8: an element that is no <a> reduces to Empty exactly when each of its
\* children does; an <a> whose href starts with neither mailto: nor http
\* and whose visible text is blank reduces to Empty.
C8_EmptyIffChildrenEmpty ==
    Done => \A e \in Visited(body) :
      /\ IsGeneric(e) =>
            (clean_tag(e) = None
               <=> \A i \in 1..Len(e.contents) : clean_tag(e.contents[i]) = None)
      /\ (/\ IsAnchor(e)
          /\ ~startswith(Get(e, "href", <<>>), mailto)
          /\ ~startswith(Get(e, "href", <<>>), http)
          /\ NonBlank(VisibleText(e)) = {}) => clean_tag(e) = None

\* a body holding only <a href=""></a> reduced to Empty
C8_Witness ==
    /\ Done
    /\ body = Tag("body", {}, <<Tag("a", {<<"href", <<>> >>}, <<>>)>>)
    /\ cleaned = None
    /\ output_html = <<>>

(***************************************************************************)
(* C9                                                                      *)
(***************************************************************************)
\* whether a separating space goes before item i of a GroupNode
SpaceBefore(rule, items, i) ==
    /\ i > 1
    /\ items[i].kind = "NavigableString"
    /\ rule = "between texts" => items[i - 1].kind = "NavigableString"

\* the markup of a result under a rule for the separating spaces: the items
\* in order, each Text as its escaped characters, each AnchorNode as its
\* start tag, text and end tag, each GroupNode in its <section> wrapper
RECURSIVE MarkupOf(_, _)
MarkupOf(x, rule) ==
    IF x.kind = "NavigableString"
    THEN [i \in 1..Len(x.s) |-> Data(escape(x.s[i]))]
    ELSE LET items == IF IsSection(x) THEN Items(x) ELSE x.contents
         IN  <<StartTag(x.name, escape_attrs(x.attrs))>>
               \o Flatten([i \in 1..Len(items) |->
                     (IF IsSection(x) /\ SpaceBefore(rule, items, i)
                      THEN <<Data(" ")>> ELSE <<>>)
                       \o MarkupOf(items[i], rule)])
               \o <<EndTag(x.name)>>

\* C9 as stated: in a rendered GroupNode a separating space stands only
\* between two consecutive Text items, none between an AnchorNode and a Text.
C9_SpaceOnlyBetweenTexts ==
    (Done /\ IsSection(cleaned)) => output_html = MarkupOf(cleaned, "between texts")

\* C9 amended: in a rendered GroupNode a separating space stands before
\* every Text item that is not the first item, that is between an AnchorNode
\* or GroupNode and the Text that follows it; none stands before an
\* AnchorNode or GroupNode, and the items are in their original order.
C9_SpaceBeforeLaterText ==
    (Done /\ IsSection(cleaned)) => output_html = MarkupOf(cleaned, "before text")

\* a rendered GroupNode with a Text before an AnchorNode and a Text after one
C9_Witness ==
    /\ Done
    /\ IsSection(cleaned)
    /\ \E i \in 1..(Len(Items(cleaned)) - 2) :
          /\ Items(cleaned)[i].kind = "NavigableString"
          /\ IsAnchor(Items(cleaned)[i + 1])
          /\ Items(cleaned)[i + 2].kind = "NavigableString"
    /\ output_html # <<>>

(***************************************************************************)
(* C10                                                                     *)
(***************************************************************************)
\* C10: the markup of a GroupNode, parsed again and reduced again, gives a
\* GroupNode of the same items in the same order.
C10_RoundTrip ==
    pc = "reparsed" =>
      /\ Len(reparsed.contents) = 1
      /\ IsSection(recleaned)
      /\ Items(recleaned) = Items(cleaned)

\* a GroupNode of a Text with an escaped character, an AnchorNode and a
\* nested GroupNode went through the round trip
C10_Witness ==
    /\ pc = "reparsed"
    /\ \E i, j, k \in 1..Len(Items(cleaned)) :
          /\ Items(cleaned)[i].kind = "NavigableString"
          /\ \E n \in 1..Len(Items(cleaned)[i].s) : Items(cleaned)[i].s[n] = "&"
          /\ IsAnchor(Items(cleaned)[j])
          /\ IsSection(Items(cleaned)[k])
    /\ Items(recleaned) = Items(cleaned)

(***************************************************************************)
(* The text a page shows, read off the page source: the characters outside *)
(* every script and style element and, when the page has a body element,   *)
(* inside it.                                                              *)
(***************************************************************************)
HasBody(markup) ==
    \E i \in 1..Len(markup) : markup[i].type = "start" /\ markup[i].name = "body"

\* the names of the elements open at token i of the markup
RECURSIVE OpenAt(_, _)
OpenAt(markup, i) ==
    IF i = 0 THEN <<>>
    ELSE LET open == OpenAt(markup, i - 1)
             tok == markup[i]
         IN  CASE tok.type = "start" -> Append(open, tok.name)
               [] tok.type = "end" -> SubSeq(open, 1, Len(open) - 1)
               [] OTHER -> open

ShownAt(markup, i) ==
    LET open == { OpenAt(markup, i)[k] : k \in 1..Len(OpenAt(markup, i)) }
    IN  /\ markup[i].type = "data"
        /\ unescape(markup[i].c) \notin Whitespace
        /\ open \cap {"script", "style"} = {}
        /\ HasBody(markup) => "body" \in open

RECURSIVE ShownFrom(_, _)
ShownFrom(markup, i) ==
    IF i > Len(markup) THEN <<>>
    ELSE (IF ShownAt(markup, i) THEN <<unescape(markup[i].c)>> ELSE <<>>)
             \o ShownFrom(markup, i + 1)

\* the non-blank characters of the text of a piece of markup
Shown(markup) == ShownFrom(markup, 1)

\* the non-blank characters of all the text of the output
Written(markup) ==
    LET data == SelectSeq(markup, LAMBDA tok :
                    tok.type = "data" /\ unescape(tok.c) \notin Whitespace)
    IN  [i \in 1..Len(data) |-> unescape(data[i].c)]

\* C11: the output holds exactly the text of the body element, or of the
\* whole document when the page has no body, without the text of any script
\* or style element, and a root that reduces to Empty gives the empty
\* string as the output of a completed request.
C11_ResultAssembly ==
    Done /\ page_source # <<>> =>
        /\ Written(output_html) = Shown(page_source)
        /\ \A i \in 1..Len(output_html) : output_html[i].c \notin {"j", "c"}
        /\ cleaned = None => output_html = <<>>

\* a full document whose body holds only a script element: the output is
\* the empty string
C11_Witness ==
    /\ Done
    /\ page_source = decode(Tag("html", {}, <<
           Tag("head", {}, << Tag("title", {}, <<NavigableString(<<"t">>)>>),
                              Tag("script", {}, <<NavigableString(<<"j">>)>>) >>),
           Tag("body", {}, << Tag("script", {}, <<NavigableString(<<"j">>)>>) >>) >>))
    /\ body = Tag("body", {}, <<>>)
    /\ cleaned = None
    /\ output_html = <<>>

\* C12: a text is classified as not meaningful exactly when nothing is left
\* of it after trimming; the email, phone and URL rules accept no text that
\* trimming empties, and the classification is the reducer's decision to
\* keep the text node.
C12_MeaningfulIffNotBlank ==
    pc = "classified" =>
        /\ (meaningful = FALSE) <=> (Trimmed(input_text) = <<>>)
        /\ (search(email_pattern, input_text) \/ search(phone_pattern, input_text)
                \/ search(url_pattern, input_text)) => Trimmed(input_text) # <<>>
        /\ meaningful <=> (clean_tag(NavigableString(input_text)) # None)

\* a phone number after a blank is accepted by the phone rule and kept,
\* trimmed, by the reducer
C12_Witness ==
    /\ pc = "classified"
    /\ input_text = <<" ", "1", "2", "3", "4", "5", "6", "7">>
    /\ search(phone_pattern, input_text)
    /\ ~search(email_pattern, input_text)
    /\ meaningful
    /\ clean_tag(NavigableString(input_text)) = Str(<<"1", "2", "3", "4", "5", "6", "7">>)

(***************************************************************************)
(* The browser lock and the pagination of a search.                        *)
(***************************************************************************)
\* the threads that are inside a call into the browser
InBrowser == { t \in Threads : calling[t] # 0 }

\* C13: every call into the browser (navigation, reading the page source
\* or the current URL, the health probe, quit and launch) is made by the
\* thread that holds the manager's lock, so no two threads are in the
\* browser at the same time.
C13_BrowserUseUnderLock ==
    /\ \A t \in InBrowser : lock = t
    /\ Cardinality(InBrowser) <= 1

\* C14: there is no deadlock on the browser lock: as every browser call
\* returns, the thread that holds the lock can always take its next step,
\* so it comes to release the lock and the requests waiting for the lock
\* come to acquire it, also when the browser turns unhealthy during a
\* search and get_driver calls restart_driver.
C14_NoDeadlockOnLock ==
    \A t \in Threads : lock = t => ENABLED Step(t)

\* C15: the instance on which /scrape or /search loads its page under the
\* lock is the manager's current driver at that moment and has not been
\* quit by a restart.
C15_LoadsOnCurrentDriver ==
    \A t \in InBrowser :
        tpc[t] \in {"scrape_load", "search_load"} =>
            /\ calling[t] = driver
            /\ calling[t] \notin quit

\* the pages whose results are in a list of results
PagesOf(results) == { results[i].page : i \in 1..Len(results) }

\* C16: a successful search had max_pages in 1..10, extracted from at most
\* max_pages pages, and reports as pages_scraped the number of pages whose
\* results it appended, whichever way the loop ended.
C16_PagesScrapedIsPagesAppended ==
    \A t \in Threads :
        route[t] = "/search" /\ response[t].status = 200 =>
            /\ max_pages[t] \in 1..10
            /\ Cardinality(PagesOf(response[t].results)) <= max_pages[t]
            /\ response[t].pages_scraped = Cardinality(PagesOf(response[t].results))

====
